---- MODULE Spec2Model ----
(***************************************************************************)
(* A model of the variational autoencoder example                          *)
(* src/pytorch/mnist/mnist-03_vae.py: the train/evaluate step protocol of  *)
(* TrainerVAE, the VAE forward pass with its reparameterisation noise, the *)
(* loss and accuracy functions, and the layer shapes of the encoder and    *)
(* decoder pairs.                                                          *)
(*                                                                         *)
(* Tensors whose numeric content does not matter to the protocol are       *)
(* uninterpreted terms: a tuple headed by the name of the computation that *)
(* produced the tensor, followed by the tensors it was computed from.  Two *)
(* terms are equal exactly when they denote the same computation on the    *)
(* same inputs.                                                            *)
(***************************************************************************)
EXTENDS Integers, Sequences, FiniteSets, TLC

VARIABLES tr, tw, fx, net

vars == <<tr, tw, fx, net>>

(***************************************************************************)
(* Bounds of the model.                                                    *)
(***************************************************************************)
\* Number of train_step / test_step calls the driver makes in a run.
MaxSteps == 2

\* Input batches the data loader can hand to a step, and their labels.
Inputs == {"xa", "xb"}
Labels == {"ya", "yb"}

\* Values a draw of torch.randn_like can return.
NoiseVals == {"e0", "e1"}

\* Names a metric can be registered under in self.metrics.
MetricNames == {"loss", "acc"}

(***************************************************************************)
(* VAE.forward and loss_vae as terms.                                      *)
(***************************************************************************)
\* self.encoder(x): the two heads read the parameters and the input.
EncoderMean(p, x) == <<"mean", p, x>>
EncoderLogVar(p, x) == <<"log_var", p, x>>

\* z = mean + torch.exp(0.5 * log_var) * epsilon
Reparam(mean, log_var, eps) == <<"z", mean, log_var, eps>>

\* self.decoder(z)
Decoder(p, z) == <<"decoder", p, z>>

\* loss_fn(x_pred, x, mean, log_var): the label is no argument of it.
LossWithLabel(s) == <<"loss_fn", s.x_pred, s.x, s.mean, s.log_var, s.y>>
LossCall(s) == <<"loss_fn", s.x_pred, s.x, s.mean, s.log_var>>

\* tensor.item()
Item(t) == <<"item", t>>

(***************************************************************************)
(* The optimizer collaborator and autograd.                                *)
(***************************************************************************)
ZeroGradient == <<"zero">>

\* loss.backward() adds the gradient of the loss to the accumulators.
Accumulate(grad, loss) == <<"add", grad, <<"d", loss>>>>

\* optimizer.step(): new parameters and new optimizer state from the
\* accumulated gradients.
AdamParams(p, grad, opt) == <<"adam_p", p, grad, opt>>
AdamState(grad, opt) == <<"adam_s", opt, grad>>

(***************************************************************************)
(* The trainer: one record holds the model parameters, the gradient        *)
(* accumulators, the optimizer state, the global generator's position,     *)
(* the locals of the running step and its position (pc).  The fields       *)
(* calls, nTrain, nUpdates, nFwd, p0, opt0, trace, evaluated and prev are  *)
(* history: they record what happened and are read by no step.             *)
(***************************************************************************)
Unset == <<"unset">>

NoPrev == [kind |-> "none", x |-> "none", eps |-> "none", draw |-> 0,
           loss |-> Unset, params |-> Unset]

TrainerInit(metrics) ==
    [pc |-> "idle", kind |-> "none", x |-> "none", y |-> "none",
     params |-> <<"init">>, grad |-> ZeroGradient, opt |-> <<"adam0">>,
     draw |-> 0, eps |-> "none", grad_enabled |-> TRUE,
     mean |-> Unset, log_var |-> Unset, x_pred |-> Unset, loss |-> Unset,
     graph |-> FALSE, res |-> << >>, metrics |-> metrics,
     calls |-> 0, nTrain |-> 0, nUpdates |-> 0, nFwd |-> 0,
     p0 |-> Unset, opt0 |-> Unset, trace |-> << >>, evaluated |-> {},
     prev |-> NoPrev]

\* What the step that just ended leaves for the next one to be compared with.
Last(s) == [kind |-> s.kind, x |-> s.x, eps |-> s.eps, draw |-> s.draw,
            loss |-> s.loss, params |-> s.params]

\* Entry of a step: the arguments are bound, x = x.to(self.device).
Enter(s, kind, x, y, pc) ==
    [s EXCEPT !.pc = pc, !.kind = kind, !.x = x, !.y = y,
              !.mean = Unset, !.log_var = Unset, !.x_pred = Unset,
              !.loss = Unset, !.graph = FALSE, !.eps = "none",
              !.res = << >>, !.evaluated = {},
              !.calls = s.calls + 1, !.nFwd = 0, !.p0 = s.params,
              !.opt0 = s.opt, !.trace = << >>, !.prev = Last(s)]

CallTrain(s, x, y) ==
    [Enter(s, "train", x, y, "zero_grad") EXCEPT !.nTrain = s.nTrain + 1]

\* @torch.no_grad(): gradient tracking is off for the body of test_step.
CallTestTraining(s, x, y) == Enter(s, "test", x, y, "zero_grad")
CallTest(s, x, y) ==
    [Enter(s, "test", x, y, "test_forward") EXCEPT !.grad_enabled = FALSE]

\* self.optimizer.zero_grad()
ZeroGradSkipped(s) ==
    [s EXCEPT !.pc = "forward", !.trace = Append(s.trace, "zero_grad")]
ZeroGrad(s) ==
    [s EXCEPT !.grad = ZeroGradient, !.pc = "forward",
              !.trace = Append(s.trace, "zero_grad")]

\* x_pred, mean, log_var = self.model(x): VAE.forward draws epsilon from the
\* global generator, which moves on by one draw.
ForwardCachedNoise(s, eps, pc) ==
    LET e == IF s.prev.kind = "none" THEN eps ELSE s.prev.eps
        mean == EncoderMean(s.params, s.x)
        log_var == EncoderLogVar(s.params, s.x)
    IN [s EXCEPT !.mean = mean, !.log_var = log_var, !.eps = e,
                 !.x_pred = Decoder(s.params, Reparam(mean, log_var, e)),
                 !.graph = s.grad_enabled,
                 !.nFwd = s.nFwd + 1, !.pc = pc,
                 !.trace = Append(s.trace, "forward")]
Forward(s, eps, pc) ==
    LET mean == EncoderMean(s.params, s.x)
        log_var == EncoderLogVar(s.params, s.x)
    IN [s EXCEPT !.mean = mean, !.log_var = log_var, !.eps = eps,
                 !.draw = s.draw + 1,
                 !.x_pred = Decoder(s.params, Reparam(mean, log_var, eps)),
                 !.graph = s.grad_enabled,
                 !.nFwd = s.nFwd + 1, !.pc = pc,
                 !.trace = Append(s.trace, "forward")]

\* loss = self.loss_fn(x_pred, x, mean, log_var)
ComputeLoss(s, pc) ==
    [s EXCEPT !.loss = LossCall(s), !.pc = pc,
              !.trace = Append(s.trace, "loss_fn")]

\* loss.backward()
Backward(s) ==
    [s EXCEPT !.grad = Accumulate(s.grad, s.loss), !.pc = "opt_step",
              !.trace = Append(s.trace, "backward")]

\* self.optimizer.step()
OptimizerStep(s) ==
    [s EXCEPT !.params = AdamParams(s.params, s.grad, s.opt),
              !.opt = AdamState(s.grad, s.opt),
              !.nUpdates = s.nUpdates + 1, !.pc = "train_return",
              !.trace = Append(s.trace, "step")]

\* for metric, metric_fn in self.metrics.items(): if metric != "loss":
MetricKeysUnguarded(metrics) == metrics
MetricKeys(metrics) == {m \in metrics : m # "loss"}

\* metric_fn(x_pred, x): the reconstruction the metric is computed from.
MetricInputRecomputed(s) ==
    Decoder(s.params, Reparam(EncoderMean(s.params, s.x),
                              EncoderLogVar(s.params, s.x), s.eps))
MetricInput(s) == s.x_pred

\* The loss the step reports: loss.item() of the loss computed above.
ReportedLoss(s) == Item(s.loss)

\* res = {"loss": loss.item()}; res[metric] = metric_fn(x_pred, x).item()
Result(s) ==
    LET keys == MetricKeys(s.metrics)
    IN [k \in {"loss"} \cup keys |->
          IF k \in keys THEN Item(<<"metric", k, MetricInput(s), s.x>>)
          ELSE ReportedLoss(s)]

\* return res (leaving test_step restores gradient tracking)
Return(s) ==
    [s EXCEPT !.res = Result(s), !.evaluated = MetricKeys(s.metrics),
              !.grad_enabled = TRUE, !.pc = "idle"]

(***************************************************************************)
(* Floating point for the reparameterisation.  A reduced format with the   *)
(* IEEE-754 special values: the finite values are the integers of          *)
(* magnitude at most FMax, a result beyond FMax overflows to an infinity,  *)
(* inf * 0 and inf - inf are NaN, and NaN equals nothing.                  *)
(***************************************************************************)
\* Largest finite value of the reduced format.
FMax == 4

Fin(v) == [k |-> "fin", v |-> v]
PInf == [k |-> "inf", v |-> 1]
NInf == [k |-> "inf", v |-> -1]
NaN == [k |-> "nan", v |-> 0]

Sign(v) == IF v > 0 THEN 1 ELSE IF v < 0 THEN -1 ELSE 0

\* A real result rounded into the format: overflow gives an infinity.
Overflowed(v) == IF v > FMax THEN PInf ELSE IF v < -FMax THEN NInf ELSE Fin(v)

FAdd(a, b) ==
    IF a.k = "nan" \/ b.k = "nan" THEN NaN
    ELSE IF a.k = "inf" /\ b.k = "inf"
         THEN (IF a.v = b.v THEN a ELSE NaN)
    ELSE IF a.k = "inf" THEN a
    ELSE IF b.k = "inf" THEN b
    ELSE Overflowed(a.v + b.v)

FMul(a, b) ==
    IF a.k = "nan" \/ b.k = "nan" THEN NaN
    ELSE IF a.k = "inf" \/ b.k = "inf"
         THEN (IF a.v = 0 \/ b.v = 0 THEN NaN
               ELSE IF Sign(a.v) = Sign(b.v) THEN PInf ELSE NInf)
    ELSE Overflowed(a.v * b.v)

\* Round n / scale to the nearest integer, ties to the even one
\* (torch.round, and the rounding of every arithmetic result).
RoundHalfUp(n, scale) ==
    LET q == n \div scale
        r == n % scale
    IN IF 2 * r < scale THEN q ELSE q + 1
RoundHalfEven(n, scale) ==
    LET q == n \div scale
        r == n % scale
    IN IF 2 * r < scale THEN q
       ELSE IF 2 * r > scale THEN q + 1
       ELSE IF q % 2 = 0 THEN q ELSE q + 1

\* 0.5 * a
FHalf(a) == IF a.k = "fin" THEN Fin(RoundHalfEven(a.v, 2)) ELSE a

\* e^v rounded to the nearest integer, for the v whose result can be finite.
ExpRounded(v) ==
    IF v < 0 THEN 0
    ELSE IF v > 6 THEN 1097
    ELSE <<1, 3, 7, 20, 55, 148, 403>>[v + 1]

\* torch.exp
FExp(a) ==
    IF a.k = "nan" THEN NaN
    ELSE IF a.k = "inf" THEN (IF a.v > 0 THEN PInf ELSE Fin(0))
    ELSE Overflowed(ExpRounded(a.v))

\* The == of floats.
FEq(a, b) == a.k # "nan" /\ b.k # "nan" /\ a = b

\* torch.exp(0.5 * log_var), element by element.
StdDev(log_var) == [i \in DOMAIN log_var |-> FExp(FHalf(log_var[i]))]

\* z = mean + torch.exp(0.5 * log_var) * epsilon, element by element;
\* epsilon = torch.randn_like(mean) has the shape of mean.
ReparamSampleAdded(mean, log_var, epsilon) ==
    [i \in DOMAIN mean |-> FAdd(mean[i], FAdd(StdDev(log_var)[i], epsilon[i]))]
ReparamSample(mean, log_var, epsilon) ==
    [i \in DOMAIN mean |-> FAdd(mean[i], FMul(StdDev(log_var)[i], epsilon[i]))]

(***************************************************************************)
(* loss_vae in exact fixed-point arithmetic (rounding is not modelled).    *)
(* Pixels are multiples of 1/2 (0, 1, 2 for 0, 0.5, 1); logarithms and     *)
(* exponentials are in thousandths; a loss is in units of 1/2000.          *)
(***************************************************************************)
\* 1000 * log(p / 2), which binary_cross_entropy clamps at -100.
LogMilli(p) == IF p = 0 THEN -100000 ELSE IF p = 1 THEN -693 ELSE 0

\* 1000 * e^v
ExpMilli(v) == IF v = -1 THEN 368 ELSE IF v = 0 THEN 1000 ELSE 2718

RECURSIVE SumSeq(_)
SumSeq(q) == IF q = << >> THEN 0 ELSE Head(q) + SumSeq(Tail(q))

\* -(x * log(x_pred) + (1 - x) * log(1 - x_pred)) of one element
BceElement(xp, x) == -(x * LogMilli(xp) + (2 - x) * LogMilli(2 - xp))

\* -0.5 * (1 + log_var - mean.pow(2) - log_var.exp()) of one element
KldElement(mean, log_var) ==
    -(1000 + 1000 * log_var - 1000 * mean * mean - ExpMilli(log_var))

\* nn.functional.binary_cross_entropy(x_pred, x, reduction='sum')
BceMeanReduced(x_pred, x) ==
    IF Len(x) = 0 THEN 0
    ELSE SumSeq([i \in DOMAIN x |-> BceElement(x_pred[i], x[i])]) \div Len(x)
Bce(x_pred, x) == SumSeq([i \in DOMAIN x |-> BceElement(x_pred[i], x[i])])

\* -0.5 * torch.sum(1 + log_var - mean.pow(2) - log_var.exp())
Kld(mean, log_var) ==
    SumSeq([i \in DOMAIN mean |-> KldElement(mean[i], log_var[i])])

\* loss_vae(x_pred, x, mean, log_var): bce + kld
LossVae(x_pred, x, mean, log_var) == Bce(x_pred, x) + Kld(mean, log_var)

(***************************************************************************)
(* binary_accuracy.  Pixel values are multiples of 1 / PixelScale.         *)
(***************************************************************************)
\* Resolution of the pixel values of the accuracy metric.
PixelScale == 4

\* x.round()
Round(v) == RoundHalfEven(v, PixelScale)

\* torch.eq(x_pred.round(), x_true.round()).float()
Matches(x_pred, x_true) ==
    [i \in DOMAIN x_pred |->
        IF Round(x_pred[i]) = Round(x_true[i]) THEN 1 ELSE 0]

\* .mean(): the sum over the number of elements, NaN (0 / 0) of no elements.
MeanOf(q) ==
    IF Len(q) = 0 THEN [nan |-> TRUE, num |-> 0, den |-> 0]
    ELSE [nan |-> FALSE, num |-> SumSeq(q), den |-> Len(q)]

BinaryAccuracy(x_pred, x_true) == MeanOf(Matches(x_pred, x_true))

(***************************************************************************)
(* Calls of the pure functions on inputs from bounded sets.                *)
(***************************************************************************)
\* Longest vector of latent values handed to the reparameterisation.
MaxVec == 2
\* Largest batch handed to loss_vae (each sample: one pixel, one latent).
MaxBatch == 2
\* Longest tensor handed to binary_accuracy.
MaxLen == 2

SeqsUpTo(S, n) == UNION {[1..m -> S] : m \in 0..n}

MeanVals == {Fin(-1), Fin(1), PInf}
LogVarVals == {NInf, Fin(-2), Fin(0), Fin(FMax), PInf}
EpsilonVals == {Fin(0), Fin(1)}

FxInit == [fn |-> "none"]

CallReparam ==
    /\ fx.fn = "none"
    /\ \E n \in 1..MaxVec :
         \E mean \in [1..n -> MeanVals], log_var \in [1..n -> LogVarVals],
            epsilon \in [1..n -> EpsilonVals] :
            fx' = [fn |-> "reparam", mean |-> mean, log_var |-> log_var,
                   epsilon |-> epsilon, std |-> StdDev(log_var),
                   z |-> ReparamSample(mean, log_var, epsilon)]
    /\ UNCHANGED <<tr, tw, net>>

\* A batch: x_pred, x, mean, log_var, one entry per sample.
Samples == [xp : 0..2, x : {0, 2}, mean : {0, 1}, log_var : {0, 1}]

LossOfBatch(b) ==
    LossVae([i \in DOMAIN b |-> b[i].xp], [i \in DOMAIN b |-> b[i].x],
            [i \in DOMAIN b |-> b[i].mean], [i \in DOMAIN b |-> b[i].log_var])

CallLossVae ==
    /\ fx.fn = "none"
    /\ \E b1 \in SeqsUpTo(Samples, MaxBatch), b2 \in SeqsUpTo(Samples, 1) :
          fx' = [fn |-> "loss_vae", b1 |-> b1, b2 |-> b2,
                 loss1 |-> LossOfBatch(b1), loss2 |-> LossOfBatch(b2),
                 loss12 |-> LossOfBatch(b1 \o b2)]
    /\ UNCHANGED <<tr, tw, net>>

CallBinaryAccuracy ==
    /\ fx.fn = "none"
    /\ \E n \in 0..MaxLen :
         \E x_pred \in [1..n -> 0..PixelScale],
            x_true \in [1..n -> 0..PixelScale] :
            fx' = [fn |-> "binary_accuracy", x_pred |-> x_pred,
                   x_true |-> x_true, acc |-> BinaryAccuracy(x_pred, x_true)]
    /\ UNCHANGED <<tr, tw, net>>

NextFn ==
    \/ CallReparam
    \/ CallLossVae
    \/ CallBinaryAccuracy

(***************************************************************************)
(* The layers of the encoder and decoder pairs, and the shape each layer   *)
(* gives its output.  A shape is the tuple of the tensor's dimensions.     *)
(***************************************************************************)
\* Largest batch size and latent_dim of the shape pipeline.
MaxShapeBatch == 3
MaxLatent == 3

Layer(op, cin, cout, k, s, p, size) ==
    [op |-> op, cin |-> cin, cout |-> cout, k |-> k, s |-> s, p |-> p,
     size |-> size]

Conv2d(cin, cout, k, s, p) == Layer("Conv2d", cin, cout, k, s, p, << >>)
ConvTranspose2d(cin, cout, k, s, p) ==
    Layer("ConvTranspose2d", cin, cout, k, s, p, << >>)
Linear(cin, cout) == Layer("Linear", cin, cout, 0, 0, 0, << >>)
Unflatten(size) == Layer("Unflatten", 0, 0, 0, 0, 0, size)
ReLU == Layer("ReLU", 0, 0, 0, 0, 0, << >>)
Sigmoid == Layer("Sigmoid", 0, 0, 0, 0, 0, << >>)
Flatten == Layer("Flatten", 0, 0, 0, 0, 0, << >>)

\* MLPEncoder.encoder, and the mean and log_var heads
MLPEncoderLayers == <<Flatten, Linear(28 * 28, 256), ReLU>>

\* MLPDecoder.decoder
MLPDecoderLayers(latent_dim) ==
    <<Linear(latent_dim, 256), ReLU, Linear(256, 28 * 28), Sigmoid,
      Unflatten(<<1, 28, 28>>)>>

\* CNNEncoder.encoder
CNNEncoderLayers ==
    <<Conv2d(1, 32, 3, 2, 1), ReLU, Conv2d(32, 64, 3, 2, 1), ReLU,
      Flatten, Linear(64 * 7 * 7, 256), ReLU>>

\* CNNDecoder.decoder
CNNDecoderLayers(latent_dim) ==
    <<Linear(latent_dim, 256), ReLU, Linear(256, 64 * 7 * 7), ReLU,
      Unflatten(<<64, 7, 7>>),
      ConvTranspose2d(64, 64, 4, 2, 1), ReLU,
      ConvTranspose2d(64, 32, 4, 2, 1), ReLU,
      ConvTranspose2d(32, 1, 3, 1, 1), Sigmoid>>

\* self.mean = nn.Linear(256, latent_dim), self.log_var likewise
HeadLayer(latent_dim) == Linear(256, latent_dim)

EncoderLayers(model_type) ==
    IF model_type = "cnn" THEN CNNEncoderLayers ELSE MLPEncoderLayers

DecoderLayers(model_type, latent_dim) ==
    IF model_type = "cnn" THEN CNNDecoderLayers(latent_dim)
    ELSE MLPDecoderLayers(latent_dim)

RECURSIVE Product(_)
Product(q) == IF q = << >> THEN 1 ELSE Head(q) * Product(Tail(q))

\* Output size of a convolution along one spatial dimension.
Conv2dOut(n, k, s, p) == (n + 2 * p - k) \div s + 1

\* Output size of a transposed convolution along one spatial dimension.
ConvTranspose2dAsConv(n, k, s, p) == (n + 2 * p - k) * s + 1
ConvTranspose2dOut(n, k, s, p) == (n - 1) * s - 2 * p + k

BadShape == << >>

\* The shape a layer gives for an input of the given shape; BadShape when
\* the layer rejects the input (a size or channel mismatch raises).
LayerOut(l, shape) ==
    IF shape = BadShape THEN BadShape
    ELSE IF l.op \in {"ReLU", "Sigmoid"} THEN shape
    ELSE IF l.op = "Flatten"
         THEN <<shape[1], Product(Tail(shape))>>
    ELSE IF l.op = "Linear"
         THEN (IF shape[Len(shape)] = l.cin
               THEN SubSeq(shape, 1, Len(shape) - 1) \o <<l.cout>>
               ELSE BadShape)
    ELSE IF l.op = "Unflatten"
         THEN (IF Len(shape) = 2 /\ shape[2] = Product(l.size)
               THEN <<shape[1]>> \o l.size
               ELSE BadShape)
    ELSE IF l.op = "Conv2d"
         THEN (IF Len(shape) = 4 /\ shape[2] = l.cin
               THEN <<shape[1], l.cout,
                      Conv2dOut(shape[3], l.k, l.s, l.p),
                      Conv2dOut(shape[4], l.k, l.s, l.p)>>
               ELSE BadShape)
    ELSE (IF Len(shape) = 4 /\ shape[2] = l.cin
          THEN <<shape[1], l.cout,
                 ConvTranspose2dOut(shape[3], l.k, l.s, l.p),
                 ConvTranspose2dOut(shape[4], l.k, l.s, l.p)>>
          ELSE BadShape)

\* The input batch: B single-channel 28 x 28 images.
InputShape(B) == <<B, 1, 28, 28>>

NetInit == [stage |-> "none"]

\* A model of the chosen pair is built and given a batch.
NetCall ==
    /\ net.stage = "none"
    /\ \E model_type \in {"cnn", "mlp"}, B \in 1..MaxShapeBatch,
          latent_dim \in 1..MaxLatent :
          net' = [stage |-> "encoder", model_type |-> model_type, B |-> B,
                  latent_dim |-> latent_dim, idx |-> 0,
                  shape |-> InputShape(B), mean |-> BadShape,
                  log_var |-> BadShape, trail |-> << >>]
    /\ UNCHANGED <<tr, tw, fx>>

\* h = self.encoder(x), one layer at a time
EncoderLayer ==
    /\ net.stage = "encoder"
    /\ net.idx < Len(EncoderLayers(net.model_type))
    /\ LET out == LayerOut(EncoderLayers(net.model_type)[net.idx + 1],
                           net.shape)
       IN net' = [net EXCEPT !.idx = net.idx + 1, !.shape = out,
                             !.trail = Append(net.trail, out)]
    /\ UNCHANGED <<tr, tw, fx>>

\* return self.mean(h), self.log_var(h); z has the shape of mean
EncoderHeads ==
    /\ net.stage = "encoder"
    /\ net.idx = Len(EncoderLayers(net.model_type))
    /\ LET out == LayerOut(HeadLayer(net.latent_dim), net.shape)
       IN net' = [net EXCEPT !.stage = "decoder", !.idx = 0, !.shape = out,
                             !.mean = out, !.log_var = out,
                             !.trail = Append(net.trail, out)]
    /\ UNCHANGED <<tr, tw, fx>>

\* x_pred = self.decoder(z), one layer at a time
DecoderLayer ==
    /\ net.stage = "decoder"
    /\ net.idx < Len(DecoderLayers(net.model_type, net.latent_dim))
    /\ LET layers == DecoderLayers(net.model_type, net.latent_dim)
           out == LayerOut(layers[net.idx + 1], net.shape)
       IN net' = [net EXCEPT !.idx = net.idx + 1, !.shape = out,
                             !.trail = Append(net.trail, out),
                             !.stage = IF net.idx + 1 = Len(layers)
                                       THEN "done" ELSE "decoder"]
    /\ UNCHANGED <<tr, tw, fx>>

NextNet ==
    \/ NetCall
    \/ EncoderLayer
    \/ EncoderHeads
    \/ DecoderLayer

(***************************************************************************)
(* The driver calls train_step and test_step in any order, one at a time.  *)
(***************************************************************************)
Init ==
    /\ \E metrics \in SUBSET MetricNames : tr = TrainerInit(metrics)
    /\ tw = tr
    /\ fx = FxInit
    /\ net = NetInit

TrainStepCall ==
    /\ tr.pc = "idle" /\ tr.calls < MaxSteps
    /\ \E x \in Inputs, y \in Labels : tr' = CallTrain(tr, x, y)
    /\ UNCHANGED <<tw, fx, net>>

TrainZeroGrad ==
    /\ tr.pc = "zero_grad"
    /\ tr' = ZeroGrad(tr)
    /\ UNCHANGED <<tw, fx, net>>

TrainForward ==
    /\ tr.pc = "forward"
    /\ \E eps \in NoiseVals : tr' = Forward(tr, eps, "loss")
    /\ UNCHANGED <<tw, fx, net>>

TrainLoss ==
    /\ tr.pc = "loss"
    /\ tr' = ComputeLoss(tr, "backward")
    /\ UNCHANGED <<tw, fx, net>>

TrainBackward ==
    /\ tr.pc = "backward"
    /\ tr' = Backward(tr)
    /\ UNCHANGED <<tw, fx, net>>

TrainOptimizerStep ==
    /\ tr.pc = "opt_step"
    /\ tr' = OptimizerStep(tr)
    /\ UNCHANGED <<tw, fx, net>>

TrainReturn ==
    /\ tr.pc = "train_return"
    /\ tr' = Return(tr)
    /\ UNCHANGED <<tw, fx, net>>

TestStepCall ==
    /\ tr.pc = "idle" /\ tr.calls < MaxSteps
    /\ \E x \in Inputs, y \in Labels : tr' = CallTest(tr, x, y)
    /\ UNCHANGED <<tw, fx, net>>

TestForward ==
    /\ tr.pc = "test_forward"
    /\ \E eps \in NoiseVals : tr' = Forward(tr, eps, "test_loss")
    /\ UNCHANGED <<tw, fx, net>>

TestLoss ==
    /\ tr.pc = "test_loss"
    /\ tr' = ComputeLoss(tr, "test_return")
    /\ UNCHANGED <<tw, fx, net>>

TestReturn ==
    /\ tr.pc = "test_return"
    /\ tr' = Return(tr)
    /\ UNCHANGED <<tw, fx, net>>

Next ==
    \/ TrainStepCall
    \/ TrainZeroGrad
    \/ TrainForward
    \/ TrainLoss
    \/ TrainBackward
    \/ TrainOptimizerStep
    \/ TrainReturn
    \/ TestStepCall
    \/ TestForward
    \/ TestLoss
    \/ TestReturn

Spec == Init /\ [][Next]_vars

(***************************************************************************)
(* Two runs side by side: the same initial parameters, optimizer state and *)
(* noise source, the same calls with the same inputs x and the same noise  *)
(* draws, and labels chosen independently for each run.                    *)
(***************************************************************************)
TwinTrainStepCall ==
    /\ tr.pc = "idle" /\ tr.calls < MaxSteps
    /\ \E x \in Inputs, ya \in Labels, yb \in Labels :
          /\ tr' = CallTrain(tr, x, ya)
          /\ tw' = CallTrain(tw, x, yb)
    /\ UNCHANGED <<fx, net>>

TwinTrainZeroGrad ==
    /\ tr.pc = "zero_grad"
    /\ tr' = ZeroGrad(tr) /\ tw' = ZeroGrad(tw)
    /\ UNCHANGED <<fx, net>>

TwinTrainForward ==
    /\ tr.pc = "forward"
    /\ \E eps \in NoiseVals :
          tr' = Forward(tr, eps, "loss") /\ tw' = Forward(tw, eps, "loss")
    /\ UNCHANGED <<fx, net>>

TwinTrainLoss ==
    /\ tr.pc = "loss"
    /\ tr' = ComputeLoss(tr, "backward") /\ tw' = ComputeLoss(tw, "backward")
    /\ UNCHANGED <<fx, net>>

TwinTrainBackward ==
    /\ tr.pc = "backward"
    /\ tr' = Backward(tr) /\ tw' = Backward(tw)
    /\ UNCHANGED <<fx, net>>

TwinTrainOptimizerStep ==
    /\ tr.pc = "opt_step"
    /\ tr' = OptimizerStep(tr) /\ tw' = OptimizerStep(tw)
    /\ UNCHANGED <<fx, net>>

TwinTrainReturn ==
    /\ tr.pc = "train_return"
    /\ tr' = Return(tr) /\ tw' = Return(tw)
    /\ UNCHANGED <<fx, net>>

TwinTestStepCall ==
    /\ tr.pc = "idle" /\ tr.calls < MaxSteps
    /\ \E x \in Inputs, ya \in Labels, yb \in Labels :
          /\ tr' = CallTest(tr, x, ya)
          /\ tw' = CallTest(tw, x, yb)
    /\ UNCHANGED <<fx, net>>

TwinTestForward ==
    /\ tr.pc = "test_forward"
    /\ \E eps \in NoiseVals :
          /\ tr' = Forward(tr, eps, "test_loss")
          /\ tw' = Forward(tw, eps, "test_loss")
    /\ UNCHANGED <<fx, net>>

TwinTestLoss ==
    /\ tr.pc = "test_loss"
    /\ tr' = ComputeLoss(tr, "test_return")
    /\ tw' = ComputeLoss(tw, "test_return")
    /\ UNCHANGED <<fx, net>>

TwinTestReturn ==
    /\ tr.pc = "test_return"
    /\ tr' = Return(tr) /\ tw' = Return(tw)
    /\ UNCHANGED <<fx, net>>

NextTwin ==
    \/ TwinTrainStepCall
    \/ TwinTrainZeroGrad
    \/ TwinTrainForward
    \/ TwinTrainLoss
    \/ TwinTrainBackward
    \/ TwinTrainOptimizerStep
    \/ TwinTrainReturn
    \/ TwinTestStepCall
    \/ TwinTestForward
    \/ TwinTestLoss
    \/ TwinTestReturn

SpecTwin == Init /\ [][NextTwin]_vars

\* The pure functions are called with the trainer as the script builds it:
\* metrics = {"acc": binary_accuracy}.
InitFn ==
    /\ tr = TrainerInit({"acc"})
    /\ tw = tr
    /\ fx = FxInit
    /\ net = NetInit

SpecFn == InitFn /\ [][NextFn]_vars

SpecNet == InitFn /\ [][NextNet]_vars

(***************************************************************************)
(* Properties of the step protocol.                                        *)
(***************************************************************************)
TrainEffects == <<"zero_grad", "forward", "loss_fn", "backward", "step">>

BeforeUpdate == {"zero_grad", "forward", "loss", "backward", "opt_step"}

Returned(s) == s.pc = "idle" /\ s.kind # "none"

\* C1: every train_step performs zero_grad, forward, loss, backward,
\* optimizer step in this order; the number of optimizer updates equals the
\* number of train_step calls that reached their update; and the update of
\* a step is applied to the gradient of that step's loss alone, accumulated
\* onto zeroed accumulators after that step's backward.
C1_TrainStepOrder ==
    /\ tr.kind = "train" =>
          /\ Len(tr.trace) <= Len(TrainEffects)
          /\ tr.trace = SubSeq(TrainEffects, 1, Len(tr.trace))
    /\ tr.kind = "train" /\ tr.pc \in {"train_return", "idle"} =>
          /\ tr.trace = TrainEffects
          /\ tr.grad = <<"add", <<"zero">>, <<"d", tr.loss>>>>
          /\ tr.params = <<"adam_p", tr.p0, tr.grad, tr.opt0>>
          /\ tr.opt = <<"adam_s", tr.opt0, tr.grad>>
    /\ tr.nUpdates =
          tr.nTrain - (IF tr.kind = "train" /\ tr.pc \in BeforeUpdate
                       THEN 1 ELSE 0)

C1_Witness ==
    tr.pc = "idle" /\ tr.kind = "train" /\ tr.nTrain = 2 /\ tr.nUpdates = 2

\* C2: no transition of a test_step changes the parameters, the gradient
\* accumulators or the optimizer state, and the parameters change only in
\* the optimizer update of a train step.
C2_TestStepFrame ==
    [][/\ tr'.kind = "test" =>
             /\ tr'.params = tr.params
             /\ tr'.grad = tr.grad
             /\ tr'.opt = tr.opt
       /\ tr'.params # tr.params =>
             tr.kind = "train" /\ tr.pc = "opt_step"]_vars

C2_Witness ==
    /\ Returned(tr) /\ tr.kind = "test" /\ tr.prev.kind = "train"
    /\ tr.params # <<"init">> /\ tr.params = tr.p0

\* C3: each step invokes the forward pass once and draws noise once; the
\* loss and every metric it returns are computed from the reconstruction of
\* that forward pass, made with the parameters the step started with.
C3_SingleForward ==
    /\ tr.kind # "none" =>
          /\ tr.nFwd = (IF tr.pc \in {"zero_grad", "forward", "test_forward"}
                        THEN 0 ELSE 1)
          /\ tr.draw = tr.calls - 1 + tr.nFwd
    /\ Returned(tr) =>
          LET mean == <<"mean", tr.p0, tr.x>>
              log_var == <<"log_var", tr.p0, tr.x>>
              x_pred == <<"decoder", tr.p0, <<"z", mean, log_var, tr.eps>>>>
          IN /\ tr.res["loss"] =
                   <<"item", <<"loss_fn", x_pred, tr.x, mean, log_var>>>>
             /\ \A k \in DOMAIN tr.res \ {"loss"} :
                   tr.res[k] = <<"item", <<"metric", k, x_pred, tr.x>>>>

C3_Witness ==
    /\ Returned(tr) /\ tr.kind = "train" /\ "acc" \in DOMAIN tr.res
    /\ tr.params # tr.p0 /\ tr.calls = 2

\* C4: the two runs, which differ only in the labels they were fed, agree at
\* every point on the parameters, the gradients, the optimizer state, the
\* loss and the returned mapping.
C4_LabelsIgnored ==
    /\ tr.pc = tw.pc
    /\ tr.params = tw.params
    /\ tr.grad = tw.grad
    /\ tr.opt = tw.opt
    /\ tr.loss = tw.loss
    /\ tr.res = tw.res

C4_Witness ==
    /\ Returned(tr) /\ tr.y # tw.y /\ tr.calls = 2 /\ tr.nUpdates >= 1
    /\ tr.metrics = {"loss", "acc"}

EvalAfterTrain ==
    /\ Returned(tr) /\ tr.kind = "test"
    /\ tr.prev.kind = "train" /\ tr.prev.x = tr.x

\* C5 as stated: an evaluate step right after a train step on the same
\* batch uses the noise the train step used.
C5_SameNoise == EvalAfterTrain => tr.eps = tr.prev.eps

\* C5 as amended: the evaluate step draws its own noise, the generator's
\* next draw after the train step's, and its loss is that of the updated
\* parameters under that draw; the two losses differ by the update and by
\* whatever the two draws differ by.
C5_FreshNoise ==
    EvalAfterTrain =>
       /\ tr.draw = tr.prev.draw + 1
       /\ tr.eps \in NoiseVals
       /\ tr.p0 = tr.prev.params
       /\ LET mean == <<"mean", tr.p0, tr.x>>
              log_var == <<"log_var", tr.p0, tr.x>>
              x_pred == <<"decoder", tr.p0, <<"z", mean, log_var, tr.eps>>>>
          IN tr.loss = <<"loss_fn", x_pred, tr.x, mean, log_var>>

C5_Witness == EvalAfterTrain /\ tr.eps # tr.prev.eps

\* C10: the returned mapping has the keys "loss" and the registered metric
\* names, "loss" is bound to the value of the step's loss, and a metric
\* registered as "loss" is not evaluated; train and evaluate steps alike.
C10_ResultKeys ==
    Returned(tr) =>
       /\ DOMAIN tr.res = {"loss"} \cup tr.metrics
       /\ tr.res["loss"] = <<"item", tr.loss>>
       /\ "loss" \notin tr.evaluated
       /\ tr.evaluated = tr.metrics \ {"loss"}

C10_Witness ==
    /\ Returned(tr) /\ tr.kind = "test" /\ tr.prev.kind = "train"
    /\ tr.metrics = {"loss", "acc"}
    /\ DOMAIN tr.res = {"loss", "acc"}

(***************************************************************************)
(* Properties of the pure functions.                                       *)
(***************************************************************************)
ZeroNoise == fx.fn = "reparam" /\ \A i \in DOMAIN fx.epsilon : fx.epsilon[i] = Fin(0)

\* C7 as stated: z has the shape of mean, and all-zero noise gives z == mean
\* whatever log_var is.
C7_ZeroNoiseAnyLogVar ==
    fx.fn = "reparam" =>
       /\ DOMAIN fx.z = DOMAIN fx.mean
       /\ ZeroNoise => \A i \in DOMAIN fx.z : FEq(fx.z[i], fx.mean[i])

\* C7 as amended: z has the shape of mean, and with all-zero noise an
\* element of z equals that of mean when exp(0.5 * log_var) is finite there,
\* and is NaN when exp(0.5 * log_var) overflowed to infinity there.
C7_ZeroNoiseFiniteStd ==
    fx.fn = "reparam" =>
       /\ DOMAIN fx.z = DOMAIN fx.mean
       /\ ZeroNoise =>
             \A i \in DOMAIN fx.z :
                /\ fx.std[i].k = "fin" => FEq(fx.z[i], fx.mean[i])
                /\ fx.std[i].k = "inf" => fx.z[i] = NaN

C7_Witness ==
    /\ ZeroNoise /\ Len(fx.z) = 2
    /\ fx.std[1].k = "fin" /\ fx.std[1].v > 0 /\ fx.z[1] = fx.mean[1]
    /\ fx.log_var[2] = Fin(FMax) /\ fx.z[2] = NaN

SampleLoss(b, i) == LossOfBatch(<<b[i]>>)

C9_AccuracyInUnitInterval ==
    fx.fn = "binary_accuracy" =>
       /\ ~fx.acc.nan
       /\ fx.acc.den > 0
       /\ 0 <= fx.acc.num /\ fx.acc.num <= fx.acc.den

\* C9 as amended: for every pair with at least one element the result is
\* the number of positions where both values are above one half or both are
\* at most one half (one half itself rounds to 0), over the number of
\* elements, a value in [0,1]; for a pair with no elements it is NaN.
C9_AccuracyNonEmpty ==
    fx.fn = "binary_accuracy" =>
       LET n == Len(fx.x_pred)
           same == {i \in 1..n : (2 * fx.x_pred[i] > PixelScale)
                                   = (2 * fx.x_true[i] > PixelScale)}
       IN /\ n > 0 =>
                /\ ~fx.acc.nan
                /\ fx.acc.den = n
                /\ fx.acc.num = Cardinality(same)
                /\ 0 <= fx.acc.num /\ fx.acc.num <= fx.acc.den
          /\ n = 0 => fx.acc.nan

C9_Witness ==
    /\ fx.fn = "binary_accuracy" /\ Len(fx.x_pred) = 2
    /\ 2 * fx.x_pred[1] = PixelScale /\ fx.x_true[1] = 0
    /\ fx.x_pred[2] = PixelScale /\ fx.x_true[2] = 0
    /\ fx.acc.num = 1 /\ fx.acc.den = 2

(***************************************************************************)
(* Properties of the layer shapes.                                         *)
(***************************************************************************)
\* The shapes after the layers of the convolutional encoder and decoder.
CnnEncoderTrail(B, latent_dim) ==
    <<<<B, 32, 14, 14>>, <<B, 32, 14, 14>>, <<B, 64, 7, 7>>, <<B, 64, 7, 7>>,
      <<B, 3136>>, <<B, 256>>, <<B, 256>>, <<B, latent_dim>>>>

CnnDecoderTrail(B) ==
    <<<<B, 256>>, <<B, 256>>, <<B, 3136>>, <<B, 3136>>, <<B, 64, 7, 7>>,
      <<B, 64, 14, 14>>, <<B, 64, 14, 14>>, <<B, 32, 28, 28>>,
      <<B, 32, 28, 28>>, <<B, 1, 28, 28>>, <<B, 1, 28, 28>>>>

\* C6: no layer of a matching pair rejects its input; the heads give
\* (B, latent_dim); the decoder output has the input's shape (B,1,28,28);
\* the convolutional encoder takes 28 to 14 to 7 and its flattened output
\* has the 64*7*7 features of the linear layer, and the convolutional
\* decoder takes 7 to 14 to 28 to 28 ending with one channel; the dense
\* decoder reshapes its 784 outputs to (1,28,28).
C6_DecoderShape ==
    net.stage # "none" =>
       /\ net.shape # BadShape
       /\ net.stage \in {"decoder", "done"} =>
             net.mean = <<net.B, net.latent_dim>>
       /\ net.stage = "done" =>
             /\ net.shape = <<net.B, 1, 28, 28>>
             /\ net.shape = InputShape(net.B)
             /\ net.model_type = "cnn" =>
                   net.trail = CnnEncoderTrail(net.B, net.latent_dim)
                                  \o CnnDecoderTrail(net.B)
             /\ net.model_type = "mlp" =>
                   /\ net.trail[Len(net.trail) - 1] = <<net.B, 784>>
                   /\ net.trail[1] = <<net.B, 784>>

C6_Witness ==
    /\ net.stage = "done" /\ net.model_type = "cnn"
    /\ net.B = 3 /\ net.latent_dim = 3
    /\ net.shape = <<3, 1, 28, 28>>

====
